---- MODULE Spec2Model ----
(***************************************************************************)
(* Chess Claim Tool: the GameTracker store (src/models/game_tracker.py)    *)
(* and the ScanFile polling workers (src/models/workers.py) that feed it.  *)
(*                                                                         *)
(* Threads: one ScanFile thread per monitored file (Workers), and the GUI  *)
(* thread, which reads the store (get_all_games), empties it (clear),      *)
(* toggles the live-pgn option, edits the dont_check set and raises the    *)
(* stop event.  The file system, the record decoder (read_game), the move  *)
(* decoder (san/push) and the claim evaluator (check_game) are external:   *)
(* what they return is drawn from small sets at the step that calls them.  *)
(*                                                                         *)
(* TrackedGame objects are Python objects shared by reference, so the      *)
(* store maps identities to references into a heap; an object no variable  *)
(* refers to any more is dropped from the heap (garbage collection).       *)
(* GameTracker methods are modelled statement by statement, because        *)
(* get_all_games and clear run without the lock.                           *)
(*                                                                         *)
(* A session also has the Stop thread, which sets the stop event and waits *)
(* for the workers, and may have a DownloadGames thread and, in the legacy *)
(* configuration, a MakePgn thread and a Scan thread sharing a file lock.  *)
(* DownloadGames and MakePgn take the stop event as an option (without it  *)
(* they make one pass and end), and MakePgn takes the file lock as an      *)
(* option (without it lock_file and release_file do nothing).              *)
(***************************************************************************)
EXTENDS Integers, Sequences, FiniteSets, TLC

\* ---------------------------------------------------------------- bounds
MaxMoves == 2       \* moves per game record
MaxGames == 2       \* records one scan pass decodes
MaxNow == 2         \* readings of the clock

Workers == {"w1", "w2"}
Ids == {"A", "B"}
Boards == {"1", "2"}
Results == {"*", "1-0"}
Kinds == {"3F", "50M"}
Refs == {"o1", "o2", "o3", "o4"}
NoRef == "none"
NoMove == 0

VARIABLES
    games,          \* GameTracker.games: dict in insertion order, <<[key, ref]>>
    heap,           \* the TrackedGame objects, by reference
    lock,           \* GameTracker._lock: the holding thread, or "free"
    now,            \* the clock datetime.now() reads
    stop_event,     \* the shared threading.Event
    live_pgn,       \* live_pgn_option.isChecked()
    dont_check,     \* claims.dont_check: the exclusion set
    snapshot,       \* the list the consumer got from its last get_all_games
    pc,             \* each ScanFile thread's position
    last_size,      \* ScanFile.run local
    size_of_pgn,    \* ScanFile.run local
    games_in_scan,  \* ScanFile.check_pgn local
    game,           \* ScanFile.check_pgn local: the record being processed
    existing,       \* GameTracker.update_game local: the record being written
    entries,        \* ScanFile.check_pgn local: findings not yet registered
    emitted,        \* the signals each thread emitted in its latest step
    file_lock,      \* the legacy Lock shared by Scan and MakePgn: holder or "free"
    stop_pc,        \* the Stop thread's position
    stop_i,         \* Stop.run: index of the scan worker being waited for
    stop_signals,   \* the signals the Stop thread has emitted, in order
    download_pc,    \* the DownloadGames thread's position ("none": no such worker)
    make_pgn_pc,    \* the MakePgn thread's position ("none": no such worker)
    download_stop_event,    \* DownloadGames was constructed with the stop event
    make_pgn_stop_event,    \* MakePgn was constructed with the stop event
    make_pgn_lock           \* MakePgn was constructed with the file lock

vars == <<games, heap, lock, now, stop_event, live_pgn, dont_check, snapshot,
          pc, last_size, size_of_pgn, games_in_scan, game, existing, entries,
          emitted, file_lock, stop_pc, stop_i, stop_signals, download_pc,
          make_pgn_pc, download_stop_event, make_pgn_stop_event, make_pgn_lock>>

tracker == <<games, heap, lock, now>>
gui == <<stop_event, live_pgn, dont_check, snapshot>>
locals == <<last_size, size_of_pgn, games_in_scan, game, existing, entries>>
wiring == <<download_stop_event, make_pgn_stop_event, make_pgn_lock>>
lifecycle == <<file_lock, stop_pc, stop_i, stop_signals, download_pc, make_pgn_pc,
               wiring>>

\* ------------------------------------------------------------ the inputs
RECURSIVE SeqsUpTo(_, _)
SeqsUpTo(S, n) ==
    IF n = 0 THEN {<<>>}
    ELSE LET shorter == SeqsUpTo(S, n - 1)
         IN  shorter \cup {Append(s, x) : s \in shorter, x \in S}

\* A move of the mainline: "ok" decodes, "bad" makes san()/push() raise.
MoveSeqs == SeqsUpTo({"ok", "bad"}, MaxMoves)

\* A decoded game record.  setup_ok = FALSE: game.board() raises.
Games ==
    { [players |-> p, board |-> b, result |-> r, setup_ok |-> s, moves |-> m] :
        p \in Ids, b \in Boards, r \in Results, s \in BOOLEAN, m \in MoveSeqs }
    \ { g \in [players : Ids, board : Boards, result : Results,
               setup_ok : {FALSE}, moves : MoveSeqs] : g.moves # <<>> }

NoGame == [players |-> "", board |-> "", result |-> "*", setup_ok |-> TRUE,
           moves |-> <<>>]

\* ------------------------------------------------------- pure operations
get_printable_move(move_count, san) == <<"move", move_count>>

\* replay_moves without the break of line 187: the loop goes on after a
\* move that failed to decode.
RECURSIVE replay_moves_no_break(_, _, _)
replay_moves_no_break(moves, i, st) ==
    IF i > Len(moves) THEN st
    ELSE LET n == st.move_count + 1
         IN  IF moves[i] = "ok"
             THEN replay_moves_no_break(moves, i + 1,
                      [st EXCEPT !.move_count = n,
                                 !.last_move = get_printable_move(n, moves[i])])
             ELSE replay_moves_no_break(moves, i + 1,
                      [st EXCEPT !.move_count = n,
                                 !.has_error = TRUE,
                                 !.error_at_move = n,
                                 !.last_move = <<"Error at move", n>>])

\* workers.py 177-187: the per-move loop; st is the four locals.
RECURSIVE replay_moves(_, _, _)
replay_moves(moves, i, st) ==
    IF i > Len(moves) THEN st
    ELSE LET n == st.move_count + 1
         IN  IF moves[i] = "ok"
             THEN replay_moves(moves, i + 1,
                      [st EXCEPT !.move_count = n,
                                 !.last_move = get_printable_move(n, moves[i])])
             ELSE [st EXCEPT !.move_count = n,
                             !.has_error = TRUE,
                             !.error_at_move = n,
                             !.last_move = <<"Error at move", n>>]

\* workers.py 170-190: the locals after the replay of one record.
replay(g) ==
    LET st == [move_count |-> 0, last_move |-> <<"", 0>>,
               has_error |-> FALSE, error_at_move |-> NoMove]
    IN  IF g.setup_ok
        THEN replay_moves(g.moves, 1, st)
        ELSE [st EXCEPT !.has_error = TRUE, !.last_move = <<"Parse error", 0>>]

\* status_of with the tests in the other order: a result wins over an error.
status_of_result_first(result, has_error) ==
    IF result # "*" THEN "Finished"
    ELSE IF has_error THEN "Invalid" ELSE "Active"

\* game_tracker.py 74-80
status_of(result, has_error) ==
    IF has_error THEN "Invalid"
    ELSE IF result = "*" THEN "Active" ELSE "Finished"

\* is_file_updated without the test for an empty or absent file.
is_file_updated_any_change(last, current) == last # current

\* workers.py 219-221
is_file_updated(last, current) == current # 0 /\ last # current

\* ---------------------------------------------------------- the store
Keys(gs) == {gs[i].key : i \in 1..Len(gs)}
Has(gs, p) == p \in Keys(gs)
Lookup(gs, p) == gs[CHOOSE i \in 1..Len(gs) : gs[i].key = p].ref
Values(gs) == [i \in 1..Len(gs) |-> gs[i].ref]

SeqRange(s) == {s[i] : i \in 1..Len(s)}
Roots(gs, snap, ex) ==
    (SeqRange(Values(gs)) \cup SeqRange(snap) \cup {ex[w] : w \in Workers})
        \ {NoRef}
collect(h, roots) == [o \in (DOMAIN h) \cap roots |-> h[o]]
FreeRefs == Refs \ DOMAIN heap
NewRef == CHOOSE o \in FreeRefs : TRUE

\* heap' after a step that leaves h behind and may have dropped references
SetHeap(h) == heap' = collect(h, Roots(games', snapshot', existing'))

Emit(w, sigs) == emitted' = [emitted EXCEPT ![w] = sigs]
Goto(w, l) == pc' = [pc EXCEPT ![w] = l]

\* The arguments of the update_game call a worker makes for its record
\* (workers.py 166-195) and the status update_game derives (72-80).
frame(w) ==
    LET st == replay(game[w])
    IN  [players |-> game[w].players, board |-> game[w].board,
         result |-> game[w].result,
         move_count |-> st.move_count, last_move |-> st.last_move,
         has_error |-> st.has_error, error_at_move |-> st.error_at_move,
         status |-> status_of(game[w].result, st.has_error)]

\* game_tracker.py 96-106
TrackedGame(f, t) ==
    [players |-> f.players, board |-> f.board, move_count |-> f.move_count,
     last_update |-> t, status |-> f.status, result |-> f.result,
     last_move |-> f.last_move, claims |-> <<>>, has_error |-> f.has_error,
     error_at_move |-> f.error_at_move]

\* An exception leaves the method (the with block releases the lock) and
\* is not caught in check_pgn or run: the thread ends.
raise(w) ==
    /\ Goto(w, "crashed")
    /\ lock' = IF lock = w THEN "free" ELSE lock
    /\ existing' = [existing EXCEPT ![w] = NoRef]
    /\ game' = [game EXCEPT ![w] = NoGame]
    /\ entries' = [entries EXCEPT ![w] = <<>>]
    /\ games_in_scan' = [games_in_scan EXCEPT ![w] = 0]
    /\ Emit(w, <<>>)
    /\ UNCHANGED <<games, now, gui, lifecycle, last_size, size_of_pgn>>
    /\ SetHeap(heap)

\* write one field of the record update_game holds (game_tracker.py 88-93)
set_field(w, next, h) ==
    /\ heap' = h
    /\ Goto(w, next)
    /\ Emit(w, <<>>)
    /\ UNCHANGED <<games, lock, now, gui, lifecycle, locals>>

\* ------------------------------------------- GameTracker.update_game
\* game_tracker.py 82: with self._lock
ug_lock(w) ==
    /\ pc[w] = "ug_lock"
    /\ lock = "free"
    /\ lock' = w
    /\ Goto(w, "ug_in")
    /\ Emit(w, <<>>)
    /\ UNCHANGED <<games, heap, now, gui, lifecycle, locals>>

\* game_tracker.py 83: if players in self.games
ug_in(w) ==
    /\ pc[w] = "ug_in"
    /\ Goto(w, IF Has(games, frame(w).players) THEN "ug_get" ELSE "ug_new")
    /\ Emit(w, <<>>)
    /\ UNCHANGED <<tracker, gui, lifecycle, locals>>

\* game_tracker.py 84: existing = self.games[players]
ug_get(w) ==
    /\ pc[w] = "ug_get"
    /\ IF Has(games, frame(w).players)
       THEN /\ existing' = [existing EXCEPT ![w] = Lookup(games, frame(w).players)]
            /\ Goto(w, "ug_ts")
            /\ Emit(w, <<>>)
            /\ UNCHANGED <<tracker, gui, lifecycle, last_size, size_of_pgn, games_in_scan,
                           game, entries>>
       ELSE raise(w)

\* ug_ts with the comparison of line 86 left out: every call stamps.
ug_ts_always(w) ==
    /\ pc[w] = "ug_ts"
    /\ now' = now + 1
    /\ heap' = [heap EXCEPT ![existing[w]].last_update = now']
    /\ Goto(w, "ug_mc")
    /\ Emit(w, <<>>)
    /\ UNCHANGED <<games, lock, gui, lifecycle, locals>>

\* game_tracker.py 86-87
ug_ts(w) ==
    /\ pc[w] = "ug_ts"
    /\ LET o == existing[w]
       IN  IF frame(w).move_count # heap[o].move_count
           THEN /\ now' = now + 1
                /\ heap' = [heap EXCEPT ![o].last_update = now']
           ELSE UNCHANGED <<heap, now>>
    /\ Goto(w, "ug_mc")
    /\ Emit(w, <<>>)
    /\ UNCHANGED <<games, lock, gui, lifecycle, locals>>

\* ug_mc of an update_game that replaces the record: the board label is
\* the call's and the claims start empty again.
ug_mc_replace(w) ==
    /\ pc[w] = "ug_mc"
    /\ set_field(w, "ug_status",
           [heap EXCEPT ![existing[w]].move_count = frame(w).move_count,
                        ![existing[w]].board = frame(w).board,
                        ![existing[w]].claims = <<>>])

\* game_tracker.py 88
ug_mc(w) ==
    /\ pc[w] = "ug_mc"
    /\ set_field(w, "ug_status",
           [heap EXCEPT ![existing[w]].move_count = frame(w).move_count])

\* game_tracker.py 89
ug_status(w) ==
    /\ pc[w] = "ug_status"
    /\ set_field(w, "ug_result",
           [heap EXCEPT ![existing[w]].status = frame(w).status])

\* game_tracker.py 90
ug_result(w) ==
    /\ pc[w] = "ug_result"
    /\ set_field(w, "ug_last_move",
           [heap EXCEPT ![existing[w]].result = frame(w).result])

\* game_tracker.py 91
ug_last_move(w) ==
    /\ pc[w] = "ug_last_move"
    /\ set_field(w, "ug_has_error",
           [heap EXCEPT ![existing[w]].last_move = frame(w).last_move])

\* ug_has_error of a record on which an error, once seen, stays.
ug_has_error_sticky(w) ==
    /\ pc[w] = "ug_has_error"
    /\ set_field(w, "ug_error_at",
           [heap EXCEPT ![existing[w]].has_error = @ \/ frame(w).has_error])

\* game_tracker.py 92
ug_has_error(w) ==
    /\ pc[w] = "ug_has_error"
    /\ set_field(w, "ug_error_at",
           [heap EXCEPT ![existing[w]].has_error = frame(w).has_error])

\* game_tracker.py 93
ug_error_at(w) ==
    /\ pc[w] = "ug_error_at"
    /\ set_field(w, "ug_ret",
           [heap EXCEPT ![existing[w]].error_at_move = frame(w).error_at_move])

\* game_tracker.py 96-107: construct the record and store it
ug_new(w) ==
    /\ pc[w] = "ug_new"
    /\ FreeRefs # {}
    /\ now' = now + 1
    /\ LET o == NewRef
           p == frame(w).players
       IN  /\ games' = IF Has(games, p)
                       THEN [i \in 1..Len(games) |->
                               IF games[i].key = p THEN [key |-> p, ref |-> o]
                               ELSE games[i]]
                       ELSE Append(games, [key |-> p, ref |-> o])
           /\ existing' = [existing EXCEPT ![w] = o]
           /\ UNCHANGED <<gui, lifecycle, last_size, size_of_pgn, games_in_scan, game, entries>>
           /\ SetHeap((o :> TrackedGame(frame(w), now')) @@ heap)
    /\ Goto(w, "ug_ret")
    /\ Emit(w, <<>>)
    /\ UNCHANGED lock

\* ug_ret that leaves the GameTracker lock held.
ug_ret_keep_lock(w) ==
    /\ pc[w] = "ug_ret"
    /\ existing' = [existing EXCEPT ![w] = NoRef]
    /\ Goto(w, "update_emit")
    /\ Emit(w, <<>>)
    /\ UNCHANGED <<games, lock, now, gui, lifecycle, last_size, size_of_pgn,
                   games_in_scan, game, entries>>
    /\ SetHeap(heap)

\* game_tracker.py 94/108: return; the with block releases the lock
ug_ret(w) ==
    /\ pc[w] = "ug_ret"
    /\ lock' = "free"
    /\ existing' = [existing EXCEPT ![w] = NoRef]
    /\ Goto(w, "update_emit")
    /\ Emit(w, <<>>)
    /\ UNCHANGED <<games, now, gui, lifecycle, last_size, size_of_pgn, games_in_scan,
                   game, entries>>
    /\ SetHeap(heap)

\* --------------------------------------- GameTracker.add_claim_to_game
\* The claim kind being registered: entry[0].value of the first pending entry.
claim_type(w) == Head(entries[w])

\* game_tracker.py 112: with self._lock
ac_lock(w) ==
    /\ pc[w] = "ac_lock"
    /\ lock = "free"
    /\ lock' = w
    /\ Goto(w, "ac_in")
    /\ Emit(w, <<>>)
    /\ UNCHANGED <<games, heap, now, gui, lifecycle, locals>>

\* game_tracker.py 113: if players in self.games
ac_in(w) ==
    /\ pc[w] = "ac_in"
    /\ Goto(w, IF Has(games, game[w].players) THEN "ac_chk" ELSE "ac_ret")
    /\ Emit(w, <<>>)
    /\ UNCHANGED <<tracker, gui, lifecycle, locals>>

\* ac_chk with the membership test of line 114 left out: always append.
ac_chk_blind(w) ==
    /\ pc[w] = "ac_chk"
    /\ IF Has(games, game[w].players)
       THEN /\ Goto(w, "ac_app")
            /\ Emit(w, <<>>)
            /\ UNCHANGED <<tracker, gui, lifecycle, locals>>
       ELSE raise(w)

\* game_tracker.py 114: if claim_type not in self.games[players].claims
ac_chk(w) ==
    /\ pc[w] = "ac_chk"
    /\ IF Has(games, game[w].players)
       THEN /\ Goto(w, IF claim_type(w) \in
                            SeqRange(heap[Lookup(games, game[w].players)].claims)
                       THEN "ac_ret" ELSE "ac_app")
            /\ Emit(w, <<>>)
            /\ UNCHANGED <<tracker, gui, lifecycle, locals>>
       ELSE raise(w)

\* game_tracker.py 115: self.games[players].claims.append(claim_type)
ac_app(w) ==
    /\ pc[w] = "ac_app"
    /\ IF Has(games, game[w].players)
       THEN LET o == Lookup(games, game[w].players)
            IN  /\ heap' = [heap EXCEPT ![o].claims = Append(@, claim_type(w))]
                /\ Goto(w, "ac_ret")
                /\ Emit(w, <<>>)
                /\ UNCHANGED <<games, lock, now, gui, lifecycle, locals>>
       ELSE raise(w)

\* game_tracker.py 112-115: return; the with block releases the lock
ac_ret(w) ==
    /\ pc[w] = "ac_ret"
    /\ lock' = "free"
    /\ Goto(w, "claim_emit")
    /\ Emit(w, <<>>)
    /\ UNCHANGED <<games, heap, now, gui, lifecycle, locals>>

\* --------------------------------------------------------- ScanFile
\* The exceptions an external call may raise, by what becomes of them in
\* ScanFile.check_pgn: the handler of line 214 catches FileNotFoundError
\* and nothing else.
Exceptions == {"FileNotFoundError", "Exception"}

\* workers.py 214-215: except FileNotFoundError: pass.  The exception left
\* the record loop; check_pgn goes on at line 217.
except_FileNotFoundError(w) ==
    /\ Goto(w, "count")
    /\ Emit(w, <<>>)
    /\ UNCHANGED <<tracker, gui, lifecycle, locals>>

\* workers.py 139-143 (and 152): the wait returns, the loop condition is
\* tested, the size is read (0: FileNotFoundError, caught at 142); any
\* other exception of getsize is not caught and leaves run.  S: the sizes
\* the file may have.
run_poll(w, S) ==
    /\ pc[w] = "loop"
    /\ IF stop_event
       THEN /\ Goto(w, "done")
            /\ Emit(w, <<>>)
            /\ UNCHANGED <<tracker, gui, lifecycle, locals>>
       ELSE \/ /\ Goto(w, "polled")
               /\ \E sz \in S : size_of_pgn' = [size_of_pgn EXCEPT ![w] = sz]
               /\ Emit(w, <<>>)
               /\ UNCHANGED <<tracker, gui, lifecycle, last_size, games_in_scan,
                              game, existing, entries>>
            \/ raise(w)

\* workers.py 145-150
run_branch(w) ==
    /\ pc[w] = "polled"
    /\ IF is_file_updated(last_size[w], size_of_pgn[w])
       THEN /\ Emit(w, <<<<"status", "ACTIVE", 0>>>>)
            /\ Goto(w, "open")
            /\ UNCHANGED last_size
       ELSE /\ Emit(w, <<<<"status", "WAIT", 0>>>>)
            /\ last_size' = [last_size EXCEPT ![w] = size_of_pgn[w]]
            /\ Goto(w, "loop")
    /\ UNCHANGED <<tracker, gui, lifecycle, size_of_pgn, games_in_scan, game, existing, entries>>

\* workers.py 155-158, 214: games_in_scan = 0; the file is opened, or open
\* raises: a FileNotFoundError is caught at 214, any other exception leaves
\* check_pgn and run
check_pgn_open(w) ==
    /\ pc[w] = "open"
    /\ \/ /\ games_in_scan' = [games_in_scan EXCEPT ![w] = 0]
          /\ \E exc \in {"none", "FileNotFoundError"} :
               Goto(w, IF exc = "none" THEN "read" ELSE "count")
          /\ Emit(w, <<>>)
          /\ UNCHANGED <<tracker, gui, lifecycle, last_size, size_of_pgn, game,
                         existing, entries>>
       \/ raise(w)

\* check_pgn_read with the live-pgn test of line 199 taken before the
\* update_game call: a finished game is skipped without being tracked.
check_pgn_read_skip_first(w, G) ==
    /\ pc[w] = "read"
    /\ IF stop_event
       THEN /\ Goto(w, "count")
            /\ UNCHANGED <<game, games_in_scan>>
       ELSE \/ /\ Goto(w, "count")
               /\ UNCHANGED <<game, games_in_scan>>
            \/ /\ games_in_scan[w] < MaxGames
               /\ now + Cardinality({v \in Workers : pc[v] \in
                      {"ug_lock", "ug_in", "ug_get", "ug_ts", "ug_new"}}) < MaxNow
               /\ \E g \in G :
                    /\ game' = [game EXCEPT ![w] = g]
                    /\ Goto(w, IF live_pgn /\ g.result # "*" THEN "read"
                               ELSE "ug_lock")
               /\ games_in_scan' = [games_in_scan EXCEPT ![w] = @ + 1]
    /\ Emit(w, <<>>)
    /\ UNCHANGED <<tracker, gui, lifecycle, last_size, size_of_pgn, existing, entries>>

\* check_pgn_read without the stop_event test of line 159.
check_pgn_read_no_cancel(w, G) ==
    /\ pc[w] = "read"
    /\ \/ /\ Goto(w, "count")
          /\ UNCHANGED <<game, games_in_scan>>
       \/ /\ games_in_scan[w] < MaxGames
          /\ now + Cardinality({v \in Workers : pc[v] \in
                 {"ug_lock", "ug_in", "ug_get", "ug_ts", "ug_new"}}) < MaxNow
          /\ \E g \in G : game' = [game EXCEPT ![w] = g]
          /\ games_in_scan' = [games_in_scan EXCEPT ![w] = @ + 1]
          /\ Goto(w, "ug_lock")
    /\ Emit(w, <<>>)
    /\ UNCHANGED <<tracker, gui, lifecycle, last_size, size_of_pgn, existing, entries>>

\* The threads inside update_game that may still read the clock.
Stamping == {v \in Workers : pc[v] \in {"ug_lock", "ug_in", "ug_get", "ug_ts", "ug_new"}}

\* workers.py 159-190: the loop condition, read_game, the replay (frame).
\* G: the records the decoder may return.  The clock is capped here, where
\* a record enters, so that no call is cut short by the cap.
check_pgn_read(w, G) ==
    /\ pc[w] = "read"
    /\ IF stop_event
       THEN /\ Goto(w, "count")
            /\ UNCHANGED <<game, games_in_scan>>
       ELSE \/ /\ Goto(w, "count")
               /\ UNCHANGED <<game, games_in_scan>>
            \/ /\ games_in_scan[w] < MaxGames
               /\ now + Cardinality(Stamping) < MaxNow
               /\ \E g \in G : game' = [game EXCEPT ![w] = g]
               /\ games_in_scan' = [games_in_scan EXCEPT ![w] = @ + 1]
               /\ Goto(w, "ug_lock")
    /\ Emit(w, <<>>)
    /\ UNCHANGED <<tracker, gui, lifecycle, last_size, size_of_pgn, existing, entries>>

\* workers.py 160: read_game (the text decoding of the file under it)
\* raises, inside the try of 157-213: a FileNotFoundError is caught at 214,
\* any other exception leaves check_pgn and run.
read_game_raises(w) ==
    /\ pc[w] = "read"
    /\ ~stop_event
    /\ \E exc \in Exceptions :
         IF exc = "FileNotFoundError" THEN except_FileNotFoundError(w)
         ELSE raise(w)

\* workers.py 196: game_update_signal.emit(players), update_game having
\* returned
check_pgn_update_emit(w) ==
    /\ pc[w] = "update_emit"
    /\ Goto(w, "decide")
    /\ Emit(w, <<<<"game_update", game[w].players, 0>>>>)
    /\ UNCHANGED <<tracker, gui, lifecycle, locals>>

\* workers.py 199-200: the live-pgn option is read; a finished game is
\* skipped when it is checked
check_pgn_decide(w) ==
    /\ pc[w] = "decide"
    /\ Goto(w, IF live_pgn /\ game[w].result # "*" THEN "read"
               ELSE "is_in_dont_check")
    /\ Emit(w, <<>>)
    /\ UNCHANGED <<tracker, gui, lifecycle, locals>>

\* check_pgn_is_in_dont_check without the has_error test of line 205.
check_pgn_is_in_dont_check_no_error(w) ==
    /\ pc[w] = "is_in_dont_check"
    /\ Goto(w, IF game[w].players \in dont_check THEN "read" ELSE "eval")
    /\ Emit(w, <<>>)
    /\ UNCHANGED <<tracker, gui, lifecycle, locals>>

\* workers.py 202-206: the exclusion set is read; an excluded game is
\* skipped, and so is one whose replay met an error (has_error is a local)
check_pgn_is_in_dont_check(w) ==
    /\ pc[w] = "is_in_dont_check"
    /\ Goto(w, IF game[w].players \in dont_check \/ replay(game[w]).has_error
               THEN "read" ELSE "eval")
    /\ Emit(w, <<>>)
    /\ UNCHANGED <<tracker, gui, lifecycle, locals>>

\* workers.py 208: entries = self.claims.check_game(game)
check_pgn_eval(w, E) ==
    /\ pc[w] = "eval"
    /\ \E es \in E : entries' = [entries EXCEPT ![w] = es]
    /\ Goto(w, "entries")
    /\ Emit(w, <<>>)
    /\ UNCHANGED <<tracker, gui, lifecycle, last_size, size_of_pgn, games_in_scan, game, existing>>

\* workers.py 208: check_game raises, inside the try of 157-213: a
\* FileNotFoundError is caught at 214, any other exception leaves check_pgn
\* and run.
check_game_raises(w) ==
    /\ pc[w] = "eval"
    /\ \E exc \in Exceptions :
         IF exc = "FileNotFoundError" THEN except_FileNotFoundError(w)
         ELSE raise(w)

\* workers.py 213: game_update_signal.emit(players), add_claim_to_game
\* having returned; on to the next entry
check_pgn_claim_emit(w) ==
    /\ pc[w] = "claim_emit"
    /\ entries' = [entries EXCEPT ![w] = Tail(@)]
    /\ Goto(w, "entries")
    /\ Emit(w, <<<<"game_update", game[w].players, 0>>>>)
    /\ UNCHANGED <<tracker, gui, lifecycle, last_size, size_of_pgn, games_in_scan,
                   game, existing>>

\* workers.py 209-212: for entry in entries: add_entry_signal.emit(entry)
check_pgn_entries(w) ==
    /\ pc[w] = "entries"
    /\ IF entries[w] = <<>>
       THEN /\ Goto(w, "read")
            /\ Emit(w, <<>>)
       ELSE /\ Goto(w, "ac_lock")
            /\ Emit(w, <<<<"add_entry", claim_type(w), 0>>>>)
    /\ UNCHANGED <<tracker, gui, lifecycle, locals>>

\* check_pgn_count of a run that emits WAIT only when it skipped the pass.
check_pgn_count_no_wait(w) ==
    /\ pc[w] = "count"
    /\ Emit(w, <<<<"games_count", "", games_in_scan[w]>>>>)
    /\ last_size' = [last_size EXCEPT ![w] = size_of_pgn[w]]
    /\ games_in_scan' = [games_in_scan EXCEPT ![w] = 0]
    /\ game' = [game EXCEPT ![w] = NoGame]
    /\ Goto(w, "loop")
    /\ UNCHANGED <<tracker, gui, lifecycle, size_of_pgn, existing, entries>>

\* workers.py 217 and 149-150: the pass is over
check_pgn_count(w) ==
    /\ pc[w] = "count"
    /\ Emit(w, <<<<"games_count", "", games_in_scan[w]>>, <<"status", "WAIT", 0>>>>)
    /\ last_size' = [last_size EXCEPT ![w] = size_of_pgn[w]]
    /\ games_in_scan' = [games_in_scan EXCEPT ![w] = 0]
    /\ game' = [game EXCEPT ![w] = NoGame]
    /\ Goto(w, "loop")
    /\ UNCHANGED <<tracker, gui, lifecycle, size_of_pgn, existing, entries>>

\* ------------------------------------------------- the GUI thread
\* game_tracker.py 117-119
get_all_games ==
    /\ snapshot' = Values(games)
    /\ UNCHANGED <<games, lock, now, stop_event, live_pgn, dont_check, pc,
                   locals, emitted, lifecycle>>
    /\ SetHeap(heap)

\* clear dropping only the oldest entry.
clear_oldest ==
    /\ games' = IF games = <<>> THEN games ELSE Tail(games)
    /\ UNCHANGED <<lock, now, gui, lifecycle, pc, locals, emitted>>
    /\ SetHeap(heap)

\* game_tracker.py 121-123
clear ==
    /\ games' = <<>>
    /\ UNCHANGED <<lock, now, gui, lifecycle, pc, locals, emitted>>
    /\ SetHeap(heap)

\* the menu checkbox live_pgn_option
toggle_live_pgn ==
    /\ live_pgn' = ~live_pgn
    /\ UNCHANGED <<tracker, stop_event, dont_check, snapshot, pc, locals, emitted,
                   lifecycle>>

\* the operator adds an identity of P to claims.dont_check, or removes it
toggle_dont_check(P) ==
    /\ \E p \in P :
         dont_check' = IF p \in dont_check THEN dont_check \ {p}
                       ELSE dont_check \cup {p}
    /\ UNCHANGED <<tracker, stop_event, live_pgn, snapshot, pc, locals, emitted,
                   lifecycle>>

\* ------------------------------------------------- the Stop thread
\* A QThread has finished when run has returned or an exception has left it.
Exited(w) == pc[w] \in {"done", "crashed"}

\* workers.py 368: disable_signal.emit()
Stop_disable ==
    /\ stop_pc = "idle"
    /\ stop_pc' = "set"
    /\ stop_signals' = Append(stop_signals, "disable")
    /\ UNCHANGED <<tracker, gui, pc, locals, emitted, wiring, file_lock, stop_i,
                   download_pc, make_pgn_pc>>

\* workers.py 369: stop_event.set()
stop ==
    /\ stop_pc = "set"
    /\ stop_event' = TRUE
    /\ stop_pc' = "wait_download"
    /\ UNCHANGED <<tracker, live_pgn, dont_check, snapshot, pc, locals, emitted,
                   wiring, file_lock, stop_i, stop_signals, download_pc, make_pgn_pc>>

\* workers.py 371-372: download_worker.wait(), if there is one
Stop_wait_download ==
    /\ stop_pc = "wait_download"
    /\ download_pc \in {"none", "done", "crashed"}
    /\ stop_pc' = "wait_scan"
    /\ stop_i' = 1
    /\ UNCHANGED <<tracker, gui, pc, locals, emitted, wiring, file_lock, stop_signals,
                   download_pc, make_pgn_pc>>

\* Stop_wait_scan that is content with the first scan worker.
Stop_wait_scan_first(SW) ==
    /\ stop_pc = "wait_scan"
    /\ IF stop_i > 1
       THEN stop_pc' = "join" /\ UNCHANGED stop_i
       ELSE /\ Exited(SW[stop_i])
            /\ stop_i' = stop_i + 1
            /\ UNCHANGED stop_pc
    /\ UNCHANGED <<tracker, gui, pc, locals, emitted, wiring, file_lock, stop_signals,
                   download_pc, make_pgn_pc>>

\* workers.py 375-377: scan_worker.wait() for each of scan_workers, in
\* order.  SW: the list the Stop thread was constructed with.
Stop_wait_scan(SW) ==
    /\ stop_pc = "wait_scan"
    /\ IF stop_i > Len(SW)
       THEN stop_pc' = "join" /\ UNCHANGED stop_i
       ELSE /\ Exited(SW[stop_i])
            /\ stop_i' = stop_i + 1
            /\ UNCHANGED stop_pc
    /\ UNCHANGED <<tracker, gui, pc, locals, emitted, wiring, file_lock, stop_signals,
                   download_pc, make_pgn_pc>>

\* workers.py 380-381: make_pgn_worker.join(), if there is one
Stop_join ==
    /\ stop_pc = "join"
    /\ make_pgn_pc \in {"none", "done", "crashed"}
    /\ stop_pc' = "enable"
    /\ UNCHANGED <<tracker, gui, pc, locals, emitted, wiring, file_lock, stop_i,
                   stop_signals, download_pc, make_pgn_pc>>

\* workers.py 383: enable_signal.emit()
Stop_enable ==
    /\ stop_pc = "enable"
    /\ stop_pc' = "done"
    /\ stop_signals' = Append(stop_signals, "enable")
    /\ UNCHANGED <<tracker, gui, pc, locals, emitted, wiring, file_lock, stop_i,
                   download_pc, make_pgn_pc>>

Stop(SW) ==
    \/ Stop_disable \/ stop \/ Stop_wait_download \/ Stop_wait_scan(SW)
    \/ Stop_join \/ Stop_enable

\* ---------------------------------------------- the DownloadGames thread
\* workers.py 82-85 (and 87): without a stop event, one call of
\* download_pgns; with it, the wait returns and the loop condition is tested
DownloadGames_run ==
    /\ download_pc = "loop"
    /\ download_pc' = IF download_stop_event /\ stop_event THEN "done"
                      ELSE "download"
    /\ UNCHANGED <<tracker, gui, pc, locals, emitted, wiring, file_lock, stop_pc,
                   stop_i, stop_signals, make_pgn_pc>>

\* workers.py 89-104: download_pgns returns (to the loop of 85-87, or, of a
\* worker without a stop event, out of run: 83), or download_pgn raises and
\* the exception leaves run
download_pgns ==
    /\ download_pc = "download"
    /\ \E raises \in BOOLEAN :
         download_pc' = IF raises THEN "crashed"
                        ELSE IF download_stop_event THEN "loop" ELSE "done"
    /\ UNCHANGED <<tracker, gui, pc, locals, emitted, wiring, file_lock, stop_pc,
                   stop_i, stop_signals, make_pgn_pc>>

DownloadGames == DownloadGames_run \/ download_pgns

\* -------------------------------------------------- the MakePgn thread
\* workers.py 410-413 (and 415): without a stop event, one call of
\* make_pgn; with it, the wait returns and the loop condition is tested
MakePgn_run ==
    /\ make_pgn_pc = "loop"
    /\ make_pgn_pc' = IF make_pgn_stop_event /\ stop_event THEN "done"
                      ELSE "read"
    /\ UNCHANGED <<tracker, gui, pc, locals, emitted, wiring, file_lock, stop_pc,
                   stop_i, stop_signals, download_pc>>

\* workers.py 418-424: the source files are read (a missing one is skipped:
\* FileNotFoundError is caught at 423); any other exception of open or read
\* leaves make_pgn and run, before lock_file
make_pgn_read ==
    /\ make_pgn_pc = "read"
    /\ \E raises \in BOOLEAN :
         make_pgn_pc' = IF raises THEN "crashed" ELSE "lock"
    /\ UNCHANGED <<tracker, gui, pc, locals, emitted, wiring, file_lock, stop_pc,
                   stop_i, stop_signals, download_pc>>

\* workers.py 426, 431-433: lock_file: the lock is acquired if MakePgn was
\* given one
lock_file ==
    /\ make_pgn_pc = "lock"
    /\ IF make_pgn_lock
       THEN file_lock = "free" /\ file_lock' = "make_pgn"
       ELSE UNCHANGED file_lock
    /\ make_pgn_pc' = "write"
    /\ UNCHANGED <<tracker, gui, pc, locals, emitted, wiring, stop_pc, stop_i,
                   stop_signals, download_pc>>

\* workers.py 427-429, 435-437: the combined file is written and
\* release_file releases the lock if MakePgn was given one (back to the loop
\* of 413-415, or, of a worker without a stop event, out of run: 411); or
\* open/write raises, and the exception leaves run before release_file.
make_pgn_write ==
    /\ make_pgn_pc = "write"
    /\ \E raises \in BOOLEAN :
         IF raises
         THEN make_pgn_pc' = "crashed" /\ UNCHANGED file_lock
         ELSE /\ make_pgn_pc' = IF make_pgn_stop_event THEN "loop" ELSE "done"
              /\ file_lock' = IF make_pgn_lock THEN "free" ELSE file_lock
    /\ UNCHANGED <<tracker, gui, pc, locals, emitted, wiring, stop_pc, stop_i,
                   stop_signals, download_pc>>

MakePgn == MakePgn_run \/ make_pgn_read \/ lock_file \/ make_pgn_write

\* ------------------------------------------- the legacy Scan thread
\* The poll of Scan.run (259-263) and the record loop of Scan.check_pgn
\* (278-334) are statement for statement those of ScanFile; the steps below
\* are where the legacy thread differs.
\* workers.py 265-270: the branch of Scan.run; check_pgn begins with the
\* acquire of line 275
Scan_run_branch(w) ==
    /\ pc[w] = "polled"
    /\ IF is_file_updated(last_size[w], size_of_pgn[w])
       THEN /\ Emit(w, <<<<"status", "ACTIVE", 0>>>>)
            /\ Goto(w, "acquire")
            /\ UNCHANGED last_size
       ELSE /\ Emit(w, <<<<"status", "WAIT", 0>>>>)
            /\ last_size' = [last_size EXCEPT ![w] = size_of_pgn[w]]
            /\ Goto(w, "loop")
    /\ UNCHANGED <<tracker, gui, lifecycle, size_of_pgn, games_in_scan, game, existing, entries>>

\* workers.py 275-276: self.lock.acquire(); games_in_scan = 0
Scan_acquire(w) ==
    /\ pc[w] = "acquire"
    /\ file_lock = "free"
    /\ file_lock' = w
    /\ games_in_scan' = [games_in_scan EXCEPT ![w] = 0]
    /\ Goto(w, "opening")
    /\ Emit(w, <<>>)
    /\ UNCHANGED <<tracker, gui, last_size, size_of_pgn, game, existing, entries,
                   stop_pc, stop_i, stop_signals, download_pc, make_pgn_pc, wiring>>

\* workers.py 278: open the combined file; FileNotFoundError is not caught
Scan_open(w) ==
    /\ pc[w] = "opening"
    /\ \E present \in BOOLEAN :
         IF present
         THEN /\ Goto(w, "read")
              /\ Emit(w, <<>>)
              /\ UNCHANGED <<tracker, gui, lifecycle, locals>>
         ELSE raise(w)

\* workers.py 280: read_game raises; Scan.check_pgn has no try, so whatever
\* the exception is, it leaves check_pgn and run
Scan_read_game_raises(w) ==
    /\ pc[w] = "read"
    /\ ~stop_event
    /\ raise(w)

\* workers.py 329: check_game raises; nothing catches it
Scan_check_game_raises(w) ==
    /\ pc[w] = "eval"
    /\ raise(w)

\* workers.py 336-337: games_count_signal.emit, self.lock.release();
\* check_pgn returns
Scan_count(w) ==
    /\ pc[w] = "count"
    /\ Emit(w, <<<<"games_count", "", games_in_scan[w]>>>>)
    /\ file_lock' = "free"
    /\ games_in_scan' = [games_in_scan EXCEPT ![w] = 0]
    /\ game' = [game EXCEPT ![w] = NoGame]
    /\ Goto(w, "released")
    /\ UNCHANGED <<tracker, gui, last_size, size_of_pgn, existing, entries,
                   stop_pc, stop_i, stop_signals, download_pc, make_pgn_pc, wiring>>

\* workers.py 269-270: back in Scan.run after check_pgn: the WAIT status,
\* last_size = size_of_pgn
Scan_run_wait(w) ==
    /\ pc[w] = "released"
    /\ Emit(w, <<<<"status", "WAIT", 0>>>>)
    /\ last_size' = [last_size EXCEPT ![w] = size_of_pgn[w]]
    /\ Goto(w, "loop")
    /\ UNCHANGED <<tracker, gui, lifecycle, size_of_pgn, games_in_scan, game,
                   existing, entries>>


\* ------------------------------------------------- the specification
\* dl, mk: the positions of the DownloadGames and the MakePgn thread
\* ("none": the session has no such worker).  A worker the session has was
\* constructed with or without the stop event, MakePgn with or without the
\* file lock (the defaults of 75 and 399 are without).
InitWith(dl, mk) ==
    /\ games = <<>>
    /\ heap = <<>>
    /\ lock = "free"
    /\ now = 0
    /\ stop_event = FALSE
    /\ live_pgn = FALSE
    /\ dont_check = {}
    /\ snapshot = <<>>
    /\ pc = [w \in Workers |-> "loop"]
    /\ last_size = [w \in Workers |-> 0]
    /\ size_of_pgn = [w \in Workers |-> 0]
    /\ games_in_scan = [w \in Workers |-> 0]
    /\ game = [w \in Workers |-> NoGame]
    /\ existing = [w \in Workers |-> NoRef]
    /\ entries = [w \in Workers |-> <<>>]
    /\ emitted = [w \in Workers |-> <<>>]
    /\ file_lock = "free"
    /\ stop_pc = "idle"
    /\ stop_i = 1
    /\ stop_signals = <<>>
    /\ download_pc = dl
    /\ make_pgn_pc = mk
    /\ download_stop_event \in (IF dl = "none" THEN {FALSE} ELSE BOOLEAN)
    /\ make_pgn_stop_event \in (IF mk = "none" THEN {FALSE} ELSE BOOLEAN)
    /\ make_pgn_lock \in (IF mk = "none" THEN {FALSE} ELSE BOOLEAN)

Init == InitWith("none", "none")

update_game(w) ==
    \/ ug_lock(w) \/ ug_in(w) \/ ug_get(w) \/ ug_ts(w) \/ ug_mc(w)
    \/ ug_status(w) \/ ug_result(w) \/ ug_last_move(w) \/ ug_has_error(w)
    \/ ug_error_at(w) \/ ug_new(w) \/ ug_ret(w)

add_claim_to_game(w) ==
    \/ ac_lock(w) \/ ac_in(w) \/ ac_chk(w) \/ ac_app(w) \/ ac_ret(w)

ScanFile(w, S, G, E) ==
    \/ run_poll(w, S) \/ run_branch(w) \/ check_pgn_open(w) \/ check_pgn_read(w, G)
    \/ read_game_raises(w) \/ check_pgn_update_emit(w) \/ check_pgn_decide(w)
    \/ check_pgn_is_in_dont_check(w) \/ check_pgn_eval(w, E)
    \/ check_game_raises(w) \/ check_pgn_entries(w) \/ check_pgn_claim_emit(w)
    \/ check_pgn_count(w)

Thread(w, S, G, E) == ScanFile(w, S, G, E) \/ update_game(w) \/ add_claim_to_game(w)

Scan(w, S, G, E) ==
    \/ run_poll(w, S) \/ Scan_run_branch(w) \/ Scan_acquire(w) \/ Scan_open(w)
    \/ check_pgn_read(w, G) \/ Scan_read_game_raises(w)
    \/ check_pgn_update_emit(w)
    \/ check_pgn_decide(w) \/ check_pgn_is_in_dont_check(w)
    \/ check_pgn_eval(w, E) \/ Scan_check_game_raises(w) \/ check_pgn_entries(w)
    \/ check_pgn_claim_emit(w) \/ Scan_count(w) \/ Scan_run_wait(w)

LegacyThread(w, S, G, E) == Scan(w, S, G, E) \/ update_game(w) \/ add_claim_to_game(w)

\* ------------------------------------------------ the specifications
\* Each specification runs the same threads on inputs drawn from small sets
\* of its own: the sizes the file has, the records the decoder returns, the
\* findings the evaluator returns.
Rec(p, b, r, m) ==
    [players |-> p, board |-> b, result |-> r, setup_ok |-> TRUE, moves |-> m]

BadMoves(m) == Cardinality({i \in 1..Len(m) : m[i] = "bad"})

\* Spec: one scan worker and the GUI thread, which reads and clears the
\* store and raises the stop event while the worker runs.
GuiSizes == {0, 1, 2}
GuiGames ==
    { Rec("A", "1", "*", <<"ok">>), Rec("A", "1", "1-0", <<"ok">>),
      Rec("A", "1", "1-0", <<"ok", "bad">>), Rec("B", "1", "*", <<"ok">>) }
GuiEntries == {<<>>, <<"3F">>}

Next ==
    \/ Thread("w1", GuiSizes, GuiGames, GuiEntries)
    \/ get_all_games
    \/ clear
    \/ Stop(<<"w1">>)

Spec == Init /\ [][Next]_vars

\* SpecPair: two scan workers whose files hold the same pairing, and the
\* GUI thread clearing the store.
PairSizes == {0, 1}
PairGames ==
    { Rec("A", "1", "*", <<"ok">>), Rec("A", "1", "1-0", <<"ok">>),
      Rec("A", "2", "*", <<"ok", "ok">>) }
PairEntries == {<<>>, <<"3F">>, <<"50M">>}

NextPair ==
    \/ \E w \in Workers : Thread(w, PairSizes, PairGames, PairEntries)
    \/ clear

SpecPair == Init /\ [][NextPair]_vars

\* SpecScan: one scan worker on every kind of record, while the operator
\* toggles the live-pgn option and the exclusion of pairing "A" and the
\* store is cleared.
ScanSizes == {0, 1, 2}
ScanGames ==
    { g \in Games : /\ g.board = "1"
                    /\ BadMoves(g.moves) <= 1
                    /\ (g.players = "A" \/ g.moves = <<"ok">>) }
ScanEntries == {<<>>, <<"3F">>}

NextScan ==
    \/ Thread("w1", ScanSizes, ScanGames, ScanEntries)
    \/ clear
    \/ toggle_live_pgn
    \/ toggle_dont_check({"A"})

SpecScan == Init /\ [][NextScan]_vars

\* SpecStop: a session of two scan workers, the download worker and the
\* merge worker, and the Stop thread that ends it.
StopSizes == {0, 1}
StopGames == { Rec("A", "1", "*", <<"ok">>) }
StopEntries == {<<"3F">>}

\* No thread of this session shares a lock with the merge worker: it is
\* constructed without one.
InitStop == InitWith("loop", "loop") /\ ~make_pgn_lock

NextStop ==
    \/ \E w \in Workers : Thread(w, StopSizes, StopGames, StopEntries)
    \/ DownloadGames
    \/ MakePgn
    \/ Stop(<<"w1", "w2">>)

SpecStop == InitStop /\ [][NextStop]_vars

\* SpecLegacy: the legacy session: one Scan thread on the combined file,
\* the MakePgn thread that writes it, and the Stop thread.
LegacySizes == {0, 1, 2}
LegacyGames == { Rec("A", "1", "*", <<"ok">>), Rec("A", "1", "*", <<"ok", "ok">>) }
LegacyEntries == {<<>>, <<"3F">>}

InitLegacy == InitWith("none", "loop")

NextLegacy ==
    \/ LegacyThread("w1", LegacySizes, LegacyGames, LegacyEntries)
    \/ MakePgn
    \/ Stop(<<"w1">>)

SpecLegacy == InitLegacy /\ [][NextLegacy]_vars

\* SpecCancel: one scan worker and the Stop thread.  FairCancel: the same
\* under the scheduling of the operating system.
CancelSizes == {0, 1, 2}
CancelGames == { Rec("A", "1", "*", <<"ok">>), Rec("B", "1", "*", <<"ok">>) }
CancelEntries == {<<>>, <<"3F">>}

NextCancel ==
    \/ Thread("w1", CancelSizes, CancelGames, CancelEntries)
    \/ Stop(<<"w1">>)

SpecCancel == Init /\ [][NextCancel]_vars

FairCancel ==
    /\ SpecCancel
    /\ WF_vars(Thread("w1", CancelSizes, CancelGames, CancelEntries))
    /\ WF_vars(Stop(<<"w1">>))

\* FairLegacy, FairStop: the same sessions under the scheduling of the
\* operating system: a thread that can take a step eventually takes one.
FairLegacy ==
    /\ SpecLegacy
    /\ WF_vars(LegacyThread("w1", LegacySizes, LegacyGames, LegacyEntries))
    /\ WF_vars(MakePgn)
    /\ WF_vars(Stop(<<"w1">>))

FairStop ==
    /\ SpecStop
    /\ \A w \in Workers : WF_vars(Thread(w, StopSizes, StopGames, StopEntries))
    /\ WF_vars(DownloadGames)
    /\ WF_vars(MakePgn)
    /\ WF_vars(Stop(<<"w1", "w2">>))

\* ------------------------------------------------------------ claims
\* The positions inside the bodies of update_game and add_claim_to_game
\* (the lock is held), and those where update_game has written some but
\* not all of the fields of the record it found.
InBody(w) ==
    pc[w] \in {"ug_in", "ug_get", "ug_ts", "ug_mc", "ug_status", "ug_result",
               "ug_last_move", "ug_has_error", "ug_error_at", "ug_new", "ug_ret",
               "ac_in", "ac_chk", "ac_app", "ac_ret"}
HalfWritten(w) ==
    \/ pc[w] \in {"ug_status", "ug_result", "ug_last_move", "ug_has_error",
                  "ug_error_at"}
    \/ /\ pc[w] = "ug_mc"
       /\ frame(w).move_count # heap[existing[w]].move_count

\* C1: the four GameTracker operations are atomic with respect to each
\* other: a get_all_games never returns a record on which an update_game
\* in progress has written only some of its fields, and a clear never takes
\* place while a thread is inside the body of update_game or
\* add_claim_to_game.  (Violated: get_all_games and clear take no lock.)
C1_AtomicOperations ==
    [][ /\ snapshot' # snapshot =>
             \A w \in Workers :
                 HalfWritten(w) => existing[w] \notin SeqRange(snapshot')
        /\ (games # <<>> /\ games' = <<>>) =>
             \A w \in Workers : ~InBody(w)
      ]_vars

\* C6: the sequence get_all_games returned is an independent snapshot: as
\* long as the consumer holds it, no step changes a field of a record in
\* it.  (Violated: the list holds the store's own TrackedGame objects.)
C6_IndependentSnapshot ==
    [][ snapshot' = snapshot =>
            \A i \in 1..Len(snapshot) : heap'[snapshot[i]] = heap[snapshot[i]]
      ]_vars

\* C2: a step changes the last_update of a record if and only if it is the
\* timestamp step of an update_game call on that record whose move_count
\* differs from the move_count the record holds when the call reaches it
\* (the lock is held, so this is the value stored before the call); a call
\* with an equal move_count leaves last_update as it is, whatever its other
\* arguments are, and no other operation of any thread touches it.
C2_LastUpdateIff ==
    [][ \A o \in (DOMAIN heap) \cap (DOMAIN heap') :
            (heap'[o].last_update # heap[o].last_update)
            <=> (\E w \in Workers :
                    /\ pc[w] = "ug_ts" /\ pc'[w] = "ug_mc"
                    /\ existing[w] = o
                    /\ game[w].players = heap[o].players
                    /\ frame(w).move_count # heap[o].move_count)
      ]_vars

\* C2 witness: a call that found a different move_count stored has just
\* stamped the record, which an earlier call had created.
C2_Witness ==
    \E w \in Workers :
        /\ pc[w] = "ug_mc"
        /\ frame(w).move_count # heap[existing[w]].move_count
        /\ heap[existing[w]].last_update = now
        /\ now = 2

NoDuplicates(s) == \A i, j \in 1..Len(s) : s[i] = s[j] => i = j

\* C3: no record's claims list ever holds the same kind twice; a step
\* changes a claims list only by appending, at the end, a kind that was not
\* in it (the append step of add_claim_to_game); and when add_claim_to_game
\* returns, the kind is in the list of the identity's record if the store
\* has one.  With two workers registering claims for the same identity.
C3_ClaimsNoDuplicates ==
    /\ [](\A o \in DOMAIN heap : NoDuplicates(heap[o].claims))
    /\ [](\A w \in Workers :
            (pc[w] = "ac_ret" /\ Has(games, game[w].players)) =>
                claim_type(w) \in
                    SeqRange(heap[Lookup(games, game[w].players)].claims))
    /\ [][ \A o \in (DOMAIN heap) \cap (DOMAIN heap') :
              \/ heap'[o].claims = heap[o].claims
              \/ \E w \in Workers :
                    /\ pc[w] = "ac_app"
                    /\ game[w].players = heap[o].players
                    /\ claim_type(w) \notin SeqRange(heap[o].claims)
                    /\ heap'[o].claims = Append(heap[o].claims, claim_type(w))
         ]_vars

\* C3 witness: both workers are registering a claim for the same identity;
\* one returns from a call that found its kind already first in a list of
\* two, while the other waits for the lock with the second kind.
C3_Witness ==
    \E w, v \in Workers :
        /\ w # v
        /\ pc[w] = "ac_ret" /\ pc[v] = "ac_lock"
        /\ game[w].players = game[v].players
        /\ Has(games, game[w].players)
        /\ LET c == heap[Lookup(games, game[w].players)].claims
           IN  Len(c) = 2 /\ c[1] = claim_type(w) /\ c[2] = claim_type(v)

\* What a record is, read off the record itself: whether its replay meets
\* a decode error, the 1-based index of the first move that fails (0: none)
\* and the fields update_game is to store for it.
DecodeError(g) == ~g.setup_ok \/ \E i \in 1..Len(g.moves) : g.moves[i] = "bad"
FirstBad(m) ==
    IF \E i \in 1..Len(m) : m[i] = "bad"
    THEN CHOOSE i \in 1..Len(m) :
            m[i] = "bad" /\ \A j \in 1..(i - 1) : m[j] = "ok"
    ELSE 0
Expected(g) ==
    LET k == FirstBad(g.moves)
        n == Len(g.moves)
    IN  [ move_count |-> IF ~g.setup_ok THEN 0 ELSE IF k > 0 THEN k ELSE n,
          has_error |-> DecodeError(g),
          error_at_move |-> IF g.setup_ok /\ k > 0 THEN k ELSE NoMove,
          last_move |-> IF ~g.setup_ok THEN <<"Parse error", 0>>
                        ELSE IF k > 0 THEN <<"Error at move", k>>
                        ELSE IF n = 0 THEN <<"", 0>> ELSE <<"move", n>>,
          result |-> g.result,
          status |-> IF DecodeError(g) THEN "Invalid"
                     ELSE IF g.result # "*" THEN "Finished" ELSE "Active" ]
Stored(r) ==
    [ move_count |-> r.move_count, has_error |-> r.has_error,
      error_at_move |-> r.error_at_move, last_move |-> r.last_move,
      result |-> r.result, status |-> r.status ]

\* C4: when update_game has written its last field, the record's status is
\* Invalid if has_error was passed true (whatever the result), otherwise
\* Finished if the result is not "*", otherwise Active; and every record no
\* update_game is part-way through has the status its own has_error and
\* result give, so status = Invalid implies has_error = true.
C4_StatusDerivation ==
    /\ \A w \in Workers :
          pc[w] = "ug_ret" =>
              LET r == heap[existing[w]]
              IN  /\ r.has_error = DecodeError(game[w])
                  /\ r.result = game[w].result
                  /\ r.status = IF DecodeError(game[w]) THEN "Invalid"
                                ELSE IF game[w].result # "*" THEN "Finished"
                                ELSE "Active"
    /\ \A o \in DOMAIN heap :
          (\A w \in Workers : existing[w] = o => pc[w] = "ug_ret") =>
              /\ heap[o].status = IF heap[o].has_error THEN "Invalid"
                                  ELSE IF heap[o].result # "*" THEN "Finished"
                                  ELSE "Active"
              /\ (heap[o].status = "Invalid" => heap[o].has_error)

\* C4 witness: an update of a tracked game with a decode error and the
\* result "1-0" has written its fields: the record stored is Invalid.
C4_Witness ==
    \E w \in Workers :
        /\ pc[w] = "ug_ret"
        /\ game[w].result = "1-0"
        /\ DecodeError(game[w])
        /\ Has(games, game[w].players)
        /\ heap[Lookup(games, game[w].players)].status = "Invalid"
        /\ heap[Lookup(games, game[w].players)].result = "1-0"

\* C5: the store holds one entry per identity, under its own key; an
\* identity enters it only by the insertion of an update_game call for that
\* identity; an update_game call finds its identity in the store or
\* inserts it, and when it returns, the record it returns is the store's
\* entry for the identity unless the store has been emptied meanwhile; entries leave only all at once (clear leaves the store
\* empty); and get_all_games returns exactly one record per identity in the
\* store (none after clear).
C5_IdentitySet ==
    /\ [](/\ Len(games) = Cardinality(Keys(games))
          /\ \A i \in 1..Len(games) : heap[games[i].ref].players = games[i].key
          /\ \A w \in Workers :
                pc[w] = "ug_ret" =>
                    \/ games = <<>>
                    \/ /\ Has(games, game[w].players)
                       /\ Lookup(games, game[w].players) = existing[w])
    /\ [][ /\ \A p \in Keys(games') \ Keys(games) :
                \E w \in Workers :
                    pc[w] = "ug_new" /\ pc'[w] = "ug_ret" /\ game[w].players = p
           /\ Keys(games) \subseteq Keys(games') \/ games' = <<>>
           /\ \A w \in Workers :
                /\ (pc[w] = "ug_get" /\ pc'[w] = "ug_ts") =>
                      /\ Has(games, game[w].players)
                      /\ existing'[w] = Lookup(games, game[w].players)
                /\ (pc[w] = "ug_new" /\ pc'[w] = "ug_ret") =>
                      /\ Keys(games') = Keys(games) \cup {game[w].players}
                      /\ existing'[w] = Lookup(games', game[w].players)
           /\ snapshot' # snapshot =>
                /\ Len(snapshot') = Cardinality(Keys(games))
                /\ {heap'[snapshot'[i]].players : i \in 1..Len(snapshot')}
                       = Keys(games)
         ]_vars

\* C5 witness: the consumer holds the two records of the two identities
\* observed, and the store has been cleared since.
C5_Witness ==
    /\ Len(snapshot) = 2
    /\ {heap[snapshot[i]].players : i \in 1..Len(snapshot)} = Ids
    /\ games = <<>>

\* The positions from the evaluator to the registration of its findings.
AtEvaluator(w) ==
    pc[w] \in {"eval", "entries", "ac_lock", "ac_in", "ac_chk", "ac_app",
               "ac_ret", "claim_emit"}

\* C7 as stated: the evaluator is entered for a record only if, in the
\* state in which it is entered, the record has no decode error, its
\* identity is not in the exclusion set, and it is not the case that the
\* live-pgn option is checked and the result is not "*"; a record with a
\* move that fails to decode is never at the evaluator nor in the
\* registration of its findings.
C7_EvaluatorGuard ==
    /\ [](\A w \in Workers : AtEvaluator(w) => ~DecodeError(game[w]))
    /\ [][ \A w \in Workers :
              (pc'[w] = "eval" /\ pc[w] # "eval") =>
                  /\ ~DecodeError(game[w])
                  /\ game[w].players \notin dont_check
                  /\ ~(live_pgn /\ game[w].result # "*")
         ]_vars

\* C7 amended: the evaluator is entered for a record only after the two
\* tests the worker makes, one after the other, each on the value it reads
\* at that moment: the live-pgn test lets the record through only if it is
\* not the case that the option is checked and the result is not "*"; the
\* exclusion test that follows lets it through to the evaluator only if
\* its identity is not in the exclusion set and it has no decode error (the
\* operator may change the option or the set in between).  A record with a
\* move that fails to decode is never at the evaluator nor in the
\* registration of its findings, whatever the operator does.
C7_GuardAsTested ==
    /\ [](\A w \in Workers : AtEvaluator(w) => ~DecodeError(game[w]))
    /\ [][ \A w \in Workers :
              /\ (pc'[w] = "eval" /\ pc[w] # "eval") =>
                    /\ pc[w] = "is_in_dont_check"
                    /\ ~DecodeError(game[w])
                    /\ game[w].players \notin dont_check
              /\ (pc'[w] = "is_in_dont_check" /\ pc[w] # "is_in_dont_check") =>
                    /\ pc[w] = "decide"
                    /\ ~(live_pgn /\ game[w].result # "*")
              /\ (pc[w] \in {"decide", "is_in_dont_check"} /\ pc'[w] # pc[w]) =>
                    game'[w] = game[w] \/ pc'[w] = "crashed"
         ]_vars

\* C7 witness: the worker is at the evaluator with an error-free, not
\* excluded game whose result is "1-0", the operator having checked the
\* live-pgn option after the worker's test of it; the game before it in the
\* pass, whose second move failed to decode, was tracked and skipped.
C7_Witness ==
    \E w \in Workers :
        /\ pc[w] = "eval"
        /\ live_pgn /\ game[w].result = "1-0"
        /\ game[w].players \notin dont_check /\ ~DecodeError(game[w])
        /\ games_in_scan[w] = 2
        /\ \E p \in Keys(games) \ {game[w].players} :
              /\ heap[Lookup(games, p)].error_at_move = 2
              /\ heap[Lookup(games, p)].status = "Invalid"

\* C8: every record the decoder returns goes to update_game; when
\* update_game returns, the record returned is the store's (unless the
\* store was emptied meanwhile) and carries the move_count, result and
\* status of the record read, whatever the live-pgn option and the
\* exclusion set are; the worker reaches the skip decision only from there,
\* having emitted the identity-updated event; and the decision for a
\* finished game under the live-pgn option goes to the next record without
\* entering the evaluator and without touching the store.
C8_TrackedBeforeSkip ==
    /\ [](\A w \in Workers :
            /\ pc[w] = "ug_ret" =>
                  /\ Stored(heap[existing[w]]) = Expected(game[w])
                  /\ games = <<>> \/ Lookup(games, game[w].players) = existing[w]
            /\ pc[w] = "decide" =>
                  emitted[w] = <<<<"game_update", game[w].players, 0>>>>)
    /\ [][ \A w \in Workers :
              /\ games_in_scan'[w] = games_in_scan[w] + 1 =>
                    pc[w] = "read" /\ pc'[w] = "ug_lock"
              /\ (pc'[w] = "update_emit" /\ pc[w] # "update_emit") =>
                    pc[w] = "ug_ret"
              /\ (pc'[w] = "decide" /\ pc[w] # "decide") =>
                    pc[w] = "update_emit"
              /\ (pc[w] = "decide" /\ pc'[w] # "decide"
                    /\ live_pgn /\ game[w].result # "*") =>
                    /\ pc'[w] = "read"
                    /\ UNCHANGED <<games, heap, lock, now>>
         ]_vars

\* C8 witness: the live-pgn option is checked and the worker is about to
\* decide on an error-free, not excluded game with result "1-0", which the
\* store already shows as Finished with its move count.
C8_Witness ==
    \E w \in Workers :
        /\ pc[w] = "decide"
        /\ live_pgn
        /\ game[w].result = "1-0" /\ ~DecodeError(game[w])
        /\ game[w].players \notin dont_check
        /\ Has(games, game[w].players)
        /\ LET r == heap[Lookup(games, game[w].players)]
           IN  /\ r.status = "Finished" /\ r.result = "1-0"
               /\ r.move_count = Len(game[w].moves) /\ r.move_count = 2

\* C9: a polling iteration that finds the size equal to the size of the
\* previous iteration, or zero, emits the "waiting" status and nothing
\* else and is over: no record is decoded, no GameTracker call is made and
\* the store, with every last_update, is as it was.
C9_IdlePoll ==
    [][ \A w \in Workers :
           (/\ pc[w] = "polled" /\ pc'[w] # "polled"
            /\ (size_of_pgn[w] = last_size[w] \/ size_of_pgn[w] = 0)) =>
               /\ emitted'[w] = <<<<"status", "WAIT", 0>>>>
               /\ pc'[w] = "loop"
               /\ UNCHANGED <<games, heap, lock, now, game, games_in_scan,
                              entries>>
      ]_vars

\* C9 witness: after a pass that tracked a game, the worker polled the same
\* nonzero size again and emitted only "waiting".
C9_Witness ==
    \E w \in Workers :
        /\ pc[w] = "loop"
        /\ emitted[w] = <<<<"status", "WAIT", 0>>>>
        /\ last_size[w] = 2 /\ size_of_pgn[w] = 2
        /\ games # <<>>

\* C10: a record whose k-th move is the first that fails to decode is
\* stored with move_count = k, has_error = true, error_at_move = k, the
\* error text and status Invalid; the pass goes on with the next record;
\* and every record is stored with the values its own content gives,
\* whatever came before it in the pass.
C10_ErrorIsLocal ==
    /\ [](\A w \in Workers :
            pc[w] = "ug_ret" =>
                LET r == heap[existing[w]]
                    k == FirstBad(game[w].moves)
                IN  /\ Stored(r) = Expected(game[w])
                    /\ (game[w].setup_ok /\ k > 0) =>
                          /\ r.has_error /\ r.error_at_move = k
                          /\ r.move_count = k /\ r.status = "Invalid")
    /\ [][ \A w \in Workers :
              /\ (pc[w] = "decide" /\ pc'[w] # "decide" /\ DecodeError(game[w])) =>
                    /\ pc'[w] \in {"read", "is_in_dont_check"}
                    /\ games_in_scan'[w] = games_in_scan[w]
              /\ (pc[w] = "is_in_dont_check" /\ pc'[w] # "is_in_dont_check"
                    /\ DecodeError(game[w])) =>
                    /\ pc'[w] = "read"
                    /\ games_in_scan'[w] = games_in_scan[w]
         ]_vars

\* C10 witness: the second record of a pass, error-free, has been stored
\* while the store shows another game Invalid with its second move failed.
C10_Witness ==
    \E w \in Workers :
        /\ pc[w] = "ug_ret"
        /\ games_in_scan[w] = 2
        /\ ~DecodeError(game[w])
        /\ Stored(heap[existing[w]]) = Expected(game[w])
        /\ \E p \in Keys(games) \ {game[w].players} :
              LET r == heap[Lookup(games, p)]
              IN  r.status = "Invalid" /\ r.error_at_move = 2 /\ r.move_count = 2

\* C11: the Stop thread emits "disable" and then "enable", at most once
\* each; the stop event is not set before "disable" has been emitted; and
\* in every state in which "enable" has been emitted the download worker,
\* every scan worker the Stop thread was given and the merge worker have
\* finished.
C11_StopOrdering ==
    /\ stop_signals \in {<<>>, <<"disable">>, <<"disable", "enable">>}
    /\ stop_event => (stop_signals # <<>> /\ stop_signals[1] = "disable")
    /\ "enable" \in SeqRange(stop_signals) =>
          /\ download_pc \in {"done", "crashed"}
          /\ \A w \in Workers : pc[w] \in {"done", "crashed"}
          /\ make_pgn_pc \in {"done", "crashed"}

\* C11 witness: "enable" has been emitted after both scan workers left
\* their loops, one of them with a game tracked.
C11_Witness ==
    /\ stop_signals = <<"disable", "enable">>
    /\ \A w \in Workers : pc[w] = "done"
    /\ download_pc = "done" /\ make_pgn_pc = "done"
    /\ games # <<>>

\* C12: once the stop event is set, the scan worker and the merge worker
\* eventually finish and the Stop thread eventually emits "enable".
C12_StopTerminates ==
    stop_event ~> /\ Exited("w1")
                  /\ make_pgn_pc \in {"done", "crashed"}
                  /\ stop_signals = <<"disable", "enable">>

\* C13: no scan worker's thread is ever ended by an exception, and a scan
\* worker has left its polling loop only if the stop event is set.
C13_FaultsContained ==
    \A w \in Workers :
        /\ pc[w] # "crashed"
        /\ pc[w] = "done" => stop_event

\* The legacy scan pass: from the acquire of line 275 to the release of
\* line 337.  The merge pass: make_pgn, from its first read to its write.
InScanPass(w) ==
    pc[w] \in {"opening", "read", "ug_lock", "ug_in", "ug_get", "ug_ts", "ug_mc",
               "ug_status", "ug_result", "ug_last_move", "ug_has_error",
               "ug_error_at", "ug_new", "ug_ret", "update_emit", "decide",
               "is_in_dont_check", "eval", "entries", "ac_lock", "ac_in",
               "ac_chk", "ac_app", "ac_ret", "claim_emit", "count"}
InMergePass == make_pgn_pc \in {"read", "lock", "write"}

\* C14: a merge worker that shares the file lock holds it throughout its
\* read-then-write pass, the legacy scan holds it throughout its pass, and
\* the two passes are never in progress at the same time.  (Violated: the
\* merge worker reads its sources before it takes the lock.)
C14_LockWholeMergePass ==
    /\ \A w \in Workers : InScanPass(w) => file_lock = w
    /\ make_pgn_lock =>
          /\ InMergePass => file_lock = "make_pgn"
          /\ \A w \in Workers : ~(InMergePass /\ InScanPass(w))

\* The thread whose lock thread t is blocked on ("none": t is not blocked).
\* A scan worker blocks on the GameTracker lock at the head of update_game
\* and add_claim_to_game, the legacy Scan on the file lock at the head of
\* its pass, the merge worker that was given the file lock in lock_file.
BlockedOn(t) ==
    IF t \in Workers /\ pc[t] \in {"ug_lock", "ac_lock"} /\ lock # "free" THEN lock
    ELSE IF t \in Workers /\ pc[t] = "acquire" /\ file_lock # "free" THEN file_lock
    ELSE IF t = "make_pgn" /\ make_pgn_lock /\ make_pgn_pc = "lock"
             /\ file_lock # "free" THEN file_lock
    ELSE "none"
NoCyclicWait ==
    \A t \in Workers \cup {"make_pgn"} :
        BlockedOn(t) # "none" =>
            /\ BlockedOn(t) # t
            /\ BlockedOn(BlockedOn(t)) # t

\* C15 as stated: no thread holds the GameTracker lock and the file lock
\* together, and no state is a deadlock of threads waiting for each
\* other's locks.
C15_OneLockAtATime ==
    /\ \A w \in Workers : ~(lock = w /\ file_lock = w)
    /\ NoCyclicWait

\* C15 amended: the merge worker holds the file lock only; the legacy Scan
\* takes the GameTracker lock only inside its pass, while it holds the file
\* lock, never the other way round; and no state is a deadlock of threads
\* waiting for each other's locks.
C15_LockOrder ==
    /\ [](/\ lock # "make_pgn"
          /\ \A w \in Workers : lock = w => file_lock = w
          /\ NoCyclicWait)
    /\ [][ \A w \in Workers :
              /\ (file_lock' = w /\ file_lock # w) => (lock # w /\ lock' # w)
              /\ (file_lock = w /\ file_lock' # w) => (lock # w /\ lock' # w)
         ]_vars

\* C15 witness: the legacy Scan is inside update_game, holding both locks,
\* and the merge worker is blocked on the file lock.
C15_Witness ==
    /\ lock = "w1" /\ file_lock = "w1" /\ pc["w1"] = "ug_new"
    /\ BlockedOn("make_pgn") = "w1"

\* C16 as stated: once the stop event is set, a scan worker's loop test
\* never lets another polling iteration begin, no new pass is started, no
\* further record is decoded and no further update_game call begins (the
\* one in progress completes), the worker at its timed wait goes straight
\* out of the loop, and the worker eventually finishes.
C16_CancellationChecks ==
    /\ [][ \A w \in Workers :
              stop_event =>
                  /\ ~(pc[w] = "loop" /\ pc'[w] = "polled")
                  /\ ~(pc[w] = "polled" /\ pc'[w] = "open")
                  /\ games_in_scan'[w] <= games_in_scan[w]
                  /\ (pc'[w] = "ug_lock" => pc[w] = "ug_lock")
                  /\ (pc[w] = "read" /\ pc'[w] # "read") => pc'[w] = "count"
                  /\ (pc[w] = "loop" /\ pc'[w] # "loop") => pc'[w] = "done"
         ]_vars
    /\ (stop_event ~> Exited("w1"))

\* C16 amended: once the stop event is set, a scan worker's loop test never
\* lets another polling iteration begin, no further record is decoded and
\* no further update_game call begins (the one in progress completes), the
\* worker at its timed wait goes straight out of the loop, and the worker
\* eventually finishes.  An iteration that was past its loop test when the
\* event was set may still enter a pass; such a pass decodes no record and
\* makes no GameTracker call: it goes from the open of the file to the
\* pass-complete event with a count of 0.
C16_NoNewRecord ==
    /\ [][ \A w \in Workers :
              stop_event =>
                  /\ ~(pc[w] = "loop" /\ pc'[w] = "polled")
                  /\ games_in_scan'[w] <= games_in_scan[w]
                  /\ (pc'[w] = "ug_lock" => pc[w] = "ug_lock")
                  /\ (pc[w] = "read" /\ pc'[w] # "read") => pc'[w] = "count"
                  /\ (pc[w] = "loop" /\ pc'[w] # "loop") => pc'[w] = "done"
                  /\ (pc[w] = "polled" /\ pc'[w] # "polled") =>
                        pc'[w] \in {"open", "loop"}
                  /\ (pc[w] = "open" /\ pc'[w] # "open") =>
                        /\ pc'[w] \in {"read", "count", "crashed"}
                        /\ games_in_scan'[w] = 0
                        /\ UNCHANGED <<games, lock, now>>
                  /\ (pc[w] = "count" /\ pc'[w] # "count"
                         /\ games_in_scan[w] = 0) =>
                        emitted'[w] = <<<<"games_count", "", 0>>,
                                        <<"status", "WAIT", 0>>>>
         ]_vars
    /\ (stop_event ~> Exited("w1"))

\* C16 witness: with the stop event set and a game tracked by an earlier
\* pass, the worker has emitted "active" and stands at the head of a pass,
\* which will decode nothing.
C16_Witness ==
    /\ stop_event
    /\ pc["w1"] = "open"
    /\ emitted["w1"] = <<<<"status", "ACTIVE", 0>>>>
    /\ games # <<>>

\* s is an initial segment of t.
IsPrefix(s, t) == Len(s) <= Len(t) /\ SubSeq(t, 1, Len(s)) = s

\* C17: no step changes the players or the board of a record, or removes
\* or reorders its claims; an identity that stays in the store keeps the
\* same record object; a step of update_game leaves the claims of the
\* record it writes as they are; and an identity leaves the store only when
\* the store is emptied.
C17_UpdateInPlace ==
    [][ /\ \A o \in (DOMAIN heap) \cap (DOMAIN heap') :
              /\ heap'[o].players = heap[o].players
              /\ heap'[o].board = heap[o].board
              /\ IsPrefix(heap[o].claims, heap'[o].claims)
        /\ \A p \in Keys(games) \cap Keys(games') :
              Lookup(games', p) = Lookup(games, p)
        /\ \A w \in Workers :
              (pc[w] \in {"ug_get", "ug_ts", "ug_mc", "ug_status", "ug_result",
                          "ug_last_move", "ug_has_error", "ug_error_at"}
                 /\ pc'[w] # pc[w] /\ pc'[w] # "crashed") =>
                  /\ existing'[w] \in DOMAIN heap
                  /\ heap'[existing'[w]].claims = heap[existing'[w]].claims
        /\ Keys(games) \subseteq Keys(games') \/ games' = <<>>
      ]_vars

\* C17 witness: a rescan has updated, with another board label and move
\* count, a tracked game that had a claim registered: the store's record
\* has the new move count, its first board label and its claim.
C17_Witness ==
    \E w \in Workers :
        /\ pc[w] = "ug_ret"
        /\ Has(games, game[w].players)
        /\ Lookup(games, game[w].players) = existing[w]
        /\ heap[existing[w]].claims # <<>>
        /\ heap[existing[w]].board # game[w].board
        /\ heap[existing[w]].move_count = Len(game[w].moves)
        /\ heap[existing[w]].last_update = 2

\* The status signals, and the size test of a polling iteration read off
\* the two sizes.
Active == <<"status", "ACTIVE", 0>>
Waiting == <<"status", "WAIT", 0>>
SizeChanged(w) == size_of_pgn[w] # 0 /\ size_of_pgn[w] # last_size[w]

\* C18 as stated: an iteration whose size is nonzero and differs emits
\* "active" and goes into the rescan, any other emits "waiting" and does
\* not; and "waiting" is emitted only by an iteration that skips the rescan.
C18_WaitOnlyWhenSkipping ==
    [][ \A w \in Workers :
           /\ (pc[w] = "polled" /\ pc'[w] # "polled") =>
                 IF SizeChanged(w)
                 THEN emitted'[w] = <<Active>> /\ pc'[w] = "open"
                 ELSE emitted'[w] = <<Waiting>> /\ pc'[w] = "loop"
           /\ (pc'[w] # pc[w] /\ Waiting \in SeqRange(emitted'[w])) =>
                 (pc[w] = "polled" /\ ~SizeChanged(w))
      ]_vars

\* C18 amended: an iteration whose size is nonzero and differs emits
\* "active", goes into the rescan and, when the pass is over, emits
\* "waiting"; any other emits "waiting" and does not rescan.  "active" is
\* emitted only at the head of a rescan, and "waiting" is the last signal
\* of every iteration that runs to its end, emitted by no other step.
C18_ActiveThenWait ==
    [][ \A w \in Workers :
           /\ (pc[w] = "polled" /\ pc'[w] # "polled") =>
                 IF SizeChanged(w)
                 THEN emitted'[w] = <<Active>> /\ pc'[w] = "open"
                 ELSE emitted'[w] = <<Waiting>> /\ pc'[w] = "loop"
           /\ (pc'[w] # pc[w] /\ Active \in SeqRange(emitted'[w])) =>
                 (pc[w] = "polled" /\ SizeChanged(w))
           /\ (pc'[w] # pc[w] /\ Waiting \in SeqRange(emitted'[w])) =>
                 (pc'[w] = "loop" /\ pc[w] \in {"polled", "count"})
           /\ (pc'[w] = "loop" /\ pc[w] # "loop") =>
                 /\ emitted'[w] # <<>>
                 /\ emitted'[w][Len(emitted'[w])] = Waiting
                 /\ last_size'[w] = size_of_pgn[w]
           /\ (pc[w] = "count" /\ pc'[w] # "count") =>
                 emitted'[w] = <<<<"games_count", "", games_in_scan[w]>>, Waiting>>
      ]_vars

\* C18 witness: an iteration that rescanned two records has ended, with
\* the pass-complete count followed by "waiting".
C18_Witness ==
    /\ pc["w1"] = "loop"
    /\ emitted["w1"] = <<<<"games_count", "", 2>>, Waiting>>
    /\ last_size["w1"] = size_of_pgn["w1"] /\ size_of_pgn["w1"] # 0

\* The worker is inside check_pgn: a scan pass has started and not ended.
InCheckPgn(w) == pc[w] = "open" \/ InScanPass(w)

\* C19: the step that ends a scan pass emits the pass-complete event, once,
\* with the number of records the pass decoded, and no other step emits it.
C19_PassCompleteEvent ==
    [][ \A w \in Workers :
           /\ (InCheckPgn(w) /\ ~InCheckPgn(w)') =>
                 /\ emitted'[w] # <<>>
                 /\ emitted'[w][1] = <<"games_count", "", games_in_scan[w]>>
                 /\ \A i \in 2..Len(emitted'[w]) : emitted'[w][i][1] # "games_count"
           /\ (pc'[w] # pc[w] /\ \E i \in 1..Len(emitted'[w]) :
                                    emitted'[w][i][1] = "games_count") =>
                 (InCheckPgn(w) /\ ~InCheckPgn(w)')
      ]_vars

\* C20: when update_game has written its last field, has_error and
\* error_at_move are those of the call, whatever the record held before (a
\* call without error leaves has_error false, error_at_move none and the
\* status Active or Finished by the result); and the three error fields of
\* a record change only in the step of an update_game call that writes the
\* field, to the value of that call.
C20_InvalidNotSticky ==
    /\ [](\A w \in Workers :
            pc[w] = "ug_ret" =>
                LET r == heap[existing[w]]
                    g == game[w]
                IN  /\ r.has_error = DecodeError(g)
                    /\ r.error_at_move =
                          IF g.setup_ok /\ FirstBad(g.moves) > 0
                          THEN FirstBad(g.moves) ELSE NoMove
                    /\ ~DecodeError(g) =>
                          /\ r.error_at_move = NoMove
                          /\ r.status = IF g.result = "*" THEN "Active"
                                        ELSE "Finished")
    /\ [][ \A o \in (DOMAIN heap) \cap (DOMAIN heap') :
              /\ heap'[o].status # heap[o].status =>
                    \E w \in Workers :
                        /\ existing[w] = o /\ pc[w] = "ug_status"
                        /\ heap'[o].status = Expected(game[w]).status
              /\ heap'[o].has_error # heap[o].has_error =>
                    \E w \in Workers :
                        /\ existing[w] = o /\ pc[w] = "ug_has_error"
                        /\ heap'[o].has_error = DecodeError(game[w])
              /\ heap'[o].error_at_move # heap[o].error_at_move =>
                    \E w \in Workers :
                        /\ existing[w] = o /\ pc[w] = "ug_error_at"
                        /\ heap'[o].error_at_move = Expected(game[w]).error_at_move
         ]_vars

\* C20 witness: an update_game call for an error-free finished game is
\* writing a record that was Invalid: the status is already Finished, the
\* error flag and the failing move are about to be reset.
C20_Witness ==
    \E w \in Workers :
        /\ pc[w] = "ug_has_error"
        /\ ~DecodeError(game[w])
        /\ heap[existing[w]].has_error
        /\ heap[existing[w]].error_at_move = 2
        /\ heap[existing[w]].status = "Finished"

\* C21: the legacy Scan thread holds the file lock only inside check_pgn:
\* whenever it is between passes (at its timed wait, polling the size, or
\* about to acquire), or its thread has ended, the lock is not held by it;
\* and the step that takes the thread out of check_pgn, whichever way,
\* releases the lock.
C21_LockReleasedOnExit ==
    /\ [](\A w \in Workers :
            pc[w] \in {"loop", "polled", "acquire", "released", "done",
                       "crashed"} =>
                file_lock # w)
    /\ [][ \A w \in Workers :
              (InScanPass(w) /\ ~InScanPass(w)') =>
                  (file_lock = w /\ file_lock' = "free")
         ]_vars

====
